---- MODULE Spec2Model ----
(***************************************************************************)
(* Model of src/app.py: the scoring pipeline of the central-bank           *)
(* dashboard (get_macro_data, calculate_z_score) and the script body that  *)
(* consumes its result (df_clean, best / worst / spread, trade_ideas,      *)
(* df_trades).                                                             *)
(*                                                                         *)
(* Numbers.  A Python float is a record [nan, v]: NaN, or the fixed-point  *)
(* value v / 1000.  Divisions and the square root truncate toward zero at  *)
(* that resolution; the series drawn below have z-scores that are exact at *)
(* it.  Binary floating-point rounding error is not modelled.              *)
(***************************************************************************)
EXTENDS Integers, Sequences, FiniteSets, TLC

VARIABLES pc, count, data, loc, resp, df, df_clean, best, worst, spread,
          trade_ideas, df_trades

vars == <<pc, count, data, loc, resp, df, df_clean, best, worst, spread,
          trade_ideas, df_trades>>

---------------------------------------------------------------------------
(* Floats *)

NaN == [nan |-> TRUE, v |-> 0]

Flt(x) == [nan |-> FALSE, v |-> x]

Abs(x) == IF x < 0 THEN -x ELSE x

Sign(x) == IF x < 0 THEN -1 ELSE IF x > 0 THEN 1 ELSE 0

\* integer division truncating toward zero, d > 0
TruncDiv(x, d) == Sign(x) * (Abs(x) \div d)

FAdd(a, b) == IF a.nan \/ b.nan THEN NaN ELSE Flt(a.v + b.v)

FSub(a, b) == IF a.nan \/ b.nan THEN NaN ELSE Flt(a.v - b.v)

FMul(a, b) == IF a.nan \/ b.nan THEN NaN ELSE Flt(TruncDiv(a.v * b.v, 1000))

\* a > b; every comparison with NaN is False
FGt(a, b) == ~a.nan /\ ~b.nan /\ a.v > b.v

FLt(a, b) == ~a.nan /\ ~b.nan /\ a.v < b.v

\* a == b (NaN == NaN is False) and a != b
FEq(a, b) == ~a.nan /\ ~b.nan /\ a.v = b.v

FNe(a, b) == ~FEq(a, b)

\* round(x, 2): nearest multiple of 0.01, a tie going to the even one;
\* round(nan, 2) is nan
round2(x) ==
    IF x.nan THEN NaN
    ELSE LET q == x.v \div 10
             r == x.v % 10
         IN  Flt(10 * (IF r < 5 THEN q
                       ELSE IF r > 5 THEN q + 1
                       ELSE IF q % 2 = 0 THEN q ELSE q + 1))

RECURSIVE SumSeq(_)
SumSeq(s) == IF s = <<>> THEN 0 ELSE Head(s) + SumSeq(Tail(s))

RECURSIVE Gcd(_, _)
Gcd(a, b) == IF b = 0 THEN a ELSE Gcd(b, a % b)

RECURSIVE GcdSeq(_)
GcdSeq(s) == IF s = <<>> THEN 0 ELSE Gcd(Head(s), GcdSeq(Tail(s)))

RECURSIVE MinSeq(_)
MinSeq(s) ==
    IF Len(s) = 1 THEN s[1]
    ELSE LET m == MinSeq(Tail(s)) IN IF s[1] < m THEN s[1] ELSE m

RECURSIVE IsqrtIn(_, _, _)
IsqrtIn(x, lo, hi) ==
    IF lo = hi THEN lo
    ELSE LET mid == (lo + hi + 1) \div 2
         IN  IF mid * mid <= x THEN IsqrtIn(x, mid, hi)
             ELSE IsqrtIn(x, lo, mid - 1)

\* floor(sqrt(x)), 0 <= x < 2^31
Isqrt(x) == IsqrtIn(x, 0, 46340)

\* floor(10^6 * a / b) by long division, a >= 0, b > 0
Ratio6(a, b) ==
    LET q1 == (1000 * a) \div b
        r1 == (1000 * a) % b
    IN  1000 * q1 + ((1000 * r1) \div b)

---------------------------------------------------------------------------
(* pandas Series operations used by get_macro_data *)

\* Series.empty
empty(s) == Len(s) = 0

\* Series.iloc[-1]
Last(s) == s[Len(s)]

\* Series.fillna(method='ffill'): a missing value takes the last value
\* before it; leading missing values stay missing
RECURSIVE ffill(_)
ffill(s) ==
    IF Len(s) <= 1 THEN s
    ELSE LET f == ffill(SubSeq(s, 1, Len(s) - 1))
             x == s[Len(s)]
         IN  Append(f, IF x.nan THEN f[Len(f)] ELSE x)

\* Series.pct_change(n): (s[t] - s[t-n]) / s[t-n], missing for the first n
\* entries and where either value is missing (levels are non-zero)
pct_change(s, n) ==
    [t \in 1..Len(s) |->
        IF t <= n THEN NaN
        ELSE IF s[t].nan \/ s[t - n].nan THEN NaN
        ELSE Flt(TruncDiv((s[t].v - s[t - n].v) * 1000, s[t - n].v))]

\* Series.dropna()
dropna(s) == SelectSeq(s, LAMBDA x : ~x.nan)

\* Series * 100
times100(s) == [t \in 1..Len(s) |-> FMul(s[t], Flt(100000))]

\* the non-missing values of a series, as integers (mean and std skip NaN)
Values(series) == LET d == dropna(series) IN [t \in 1..Len(d) |-> d[t].v]

\* x |-> (x - min) / g over the non-missing values; g is the gcd of the
\* deviations.  The z-score is unchanged by it, and the sums stay small.
Reduced(vals) ==
    LET m == MinSeq(vals)
        dev == [t \in 1..Len(vals) |-> vals[t] - m]
        g == GcdSeq(dev)
    IN  [m |-> m, g |-> IF g = 0 THEN 1 ELSE g,
         y |-> [t \in 1..Len(vals) |-> dev[t] \div (IF g = 0 THEN 1 ELSE g)]]

\* Series.mean(): NaN without a value, else the rational S / n, kept as the
\* numerator and denominator of (mean - m) / g
mean(series) ==
    LET vals == Values(series) IN
    IF Len(vals) = 0 THEN [nan |-> TRUE, num |-> 0, den |-> 1]
    ELSE [nan |-> FALSE, num |-> SumSeq(Reduced(vals).y), den |-> Len(vals)]

\* Series.std() (ddof = 1): NaN with fewer than 2 values, else the square
\* root of V / (n (n - 1)), V = n * sum(y^2) - sum(y)^2, kept as the
\* numerator and denominator of (std / g)^2
std(series) ==
    LET vals == Values(series)
        n == Len(vals)
    IN  IF n < 2 THEN [nan |-> TRUE, num |-> 0, den |-> 1]
        ELSE LET y == Reduced(vals).y
                 S == SumSeq(y)
                 Q == SumSeq([t \in 1..n |-> y[t] * y[t]])
             IN  [nan |-> FALSE, num |-> n * Q - S * S, den |-> n * (n - 1)]

\* std == 0 (False for NaN)
StdIsZero(sd) == ~sd.nan /\ sd.num = 0

\* (last - mean) / std
ZQuotient(series, mu, sd) ==
    LET last == Last(series) IN
    IF last.nan \/ mu.nan \/ sd.nan THEN NaN
    ELSE LET r == Reduced(Values(series))
             a == mu.den * ((last.v - r.m) \div r.g) - mu.num
             \* z^2 = (a / mu.den)^2 * sd.den / sd.num
             num == a * a * sd.den
             den == mu.den * mu.den * sd.num
         IN  Flt(Sign(a) * Isqrt(Ratio6(num, den)))

MinObs == 12

\* src/app.py calculate_z_score
calculate_z_score(series) ==
    IF Len(series) < MinObs THEN Flt(0)
    ELSE LET mu == mean(series)
             sd == std(series)
         IN  IF StdIsZero(sd) THEN Flt(0)
             ELSE ZQuotient(series, mu, sd)

---------------------------------------------------------------------------
(* Configuration *)

None == "None"

\* central_banks, in insertion order; a currency is the pair of its
\* three-letter code and the rest of its display name
AllBanks ==
    << [currency |-> <<"USD", " (Fed)">>, rate |-> "FEDFUNDS",
        cpi |-> "CPIAUCSL", balance |-> "WALCL"],
       [currency |-> <<"EUR", " (ECB)">>, rate |-> "ECBDFR",
        cpi |-> "CP0000EZ19M086NEST", balance |-> "ECBASSETSW"],
       [currency |-> <<"JPY", " (BoJ)">>, rate |-> "INTDSRJPM193N",
        cpi |-> "JPNCPIALLMINMEI", balance |-> "JPNASSETS"],
       [currency |-> <<"GBP", " (BoE)">>, rate |-> "IUDSOIA",
        cpi |-> "GBRCPIALLMINMEI", balance |-> None],
       [currency |-> <<"CAD", " (BoC)">>, rate |-> "INTDSRCAM193N",
        cpi |-> "CANCPIALLMINMEI", balance |-> "CV11269"],
       [currency |-> <<"AUD", " (RBA)">>, rate |-> "INTDSRAUM193N",
        cpi |-> "AUSCPIALLMINMEI", balance |-> None],
       [currency |-> <<"CHF", " (SNB)">>, rate |-> "INTDSRCHM193N",
        cpi |-> "CHECPIALLMINMEI", balance |-> "CHFCENTRALBANK"] >>

\* the model runs over the first NumEntities entries of the configuration
NumEntities == 4

central_banks == SubSeq(AllBanks, 1, NumEntities)

total == Len(central_banks)

CpiLag == 12

BalanceLag == 26

Sentinel == -999

---------------------------------------------------------------------------
(* What fred.get_series can answer: an exception, or a series of           *)
(* observations, some of them possibly missing.                            *)

Rep(n, x) == [i \in 1..n |-> x]

\* the series fred can return, by name
Observations ==
    [ \* no observation in the window
      none |-> <<>>,
      \* policy rates, in percent: all missing; constant; one rise, with a
      \* missing observation after it
      missing |-> Rep(12, NaN),
      flat |-> Rep(16, Flt(1005)),
      rise |-> Rep(6, Flt(1000)) \o <<Flt(1005), NaN>> \o Rep(8, Flt(1005)),
      \* price index levels: one year only; a rise in the last 6 months
      cpi_short |-> Rep(12, Flt(100000)),
      cpi_up |-> Rep(22, Flt(100000)) \o Rep(6, Flt(102000)),
      \* weekly balance-sheet levels: 26 weeks only; an expansion
      bs_short |-> Rep(26, Flt(500000)),
      bs_up |-> Rep(27, Flt(500000)) \o Rep(15, Flt(510000)) ]

Fail == [status |-> "fail", series |-> "none"]

Ok(name) == [status |-> "ok", series |-> name]

NotFetched == [status |-> "none", series |-> "none"]

Answers(rate_r, cpi_r, bs_r) == [rate |-> rate_r, cpi |-> cpi_r, balance |-> bs_r]

\* what fred answers to the (up to) three requests of one iteration; every
\* path through the loop body is taken by one of these
Scenarios ==
    { Answers(Fail, Fail, Fail),
      Answers(Ok("none"), Ok("cpi_up"), Ok("bs_up")),
      Answers(Ok("rise"), Fail, Ok("bs_up")),
      Answers(Ok("missing"), Ok("cpi_short"), Fail),
      Answers(Ok("flat"), Ok("cpi_short"), Fail),
      Answers(Ok("rise"), Ok("cpi_short"), Ok("bs_short")),
      Answers(Ok("rise"), Ok("cpi_up"), Fail),
      Answers(Ok("flat"), Ok("cpi_up"), Ok("bs_up")),
      Answers(Ok("rise"), Ok("cpi_short"), Ok("bs_up")) }

---------------------------------------------------------------------------
(* get_macro_data: one iteration of the loop over central_banks *)

\* the locals of get_macro_data that outlive an iteration.  They are unbound
\* before their first assignment and are never read before it.
NoLocals ==
    [cur_rate |-> Flt(0), z_rate |-> Flt(0), cur_cpi |-> Flt(0),
     z_cpi |-> Flt(0), cur_bs_chg |-> Flt(0), z_bs |-> Flt(0),
     score |-> Flt(0)]

Raised(l) == [raised |-> TRUE, loc |-> l]

Passed(l) == [raised |-> FALSE, loc |-> l]

\* 1. TAUX DIRECTEUR
RateStep(l, r) ==
    IF r.status # "ok" THEN Raised(l)
    ELSE LET rate_s == ffill(Observations[r.series]) IN
         IF empty(rate_s) THEN Raised(l)
         ELSE Passed([l EXCEPT !.cur_rate = Last(rate_s),
                               !.z_rate = calculate_z_score(rate_s)])

\* 2. INFLATION (CPI)
CpiStep(l, r) ==
    IF r.status # "ok" THEN Raised(l)
    ELSE LET cpi_s == ffill(Observations[r.series])
             cpi_yoy == times100(dropna(pct_change(cpi_s, CpiLag)))
         IN  IF empty(cpi_yoy)
             THEN Passed([l EXCEPT !.cur_cpi = Flt(0), !.z_cpi = Flt(0)])
             ELSE Passed([l EXCEPT !.cur_cpi = Last(cpi_yoy),
                                   !.z_cpi = calculate_z_score(cpi_yoy)])

\* cur_bs_chg = 0; z_bs = 0
InitBalance_stale(l) == l

InitBalance(l) == [l EXCEPT !.cur_bs_chg = Flt(0), !.z_bs = Flt(0)]

\* if codes['balance']:
HasBalance_always(codes) == TRUE

HasBalance(codes) == codes.balance # None

\* 3. BILAN: the inner try / except never raises
BalanceStep(l, codes, r) ==
    LET l0 == InitBalance(l) IN
    IF ~HasBalance(codes) THEN l0
    ELSE IF r.status # "ok"
         THEN [l0 EXCEPT !.cur_bs_chg = Flt(0), !.z_bs = Flt(0)]
    ELSE LET bs_s == ffill(Observations[r.series])
             bs_chg == times100(dropna(pct_change(bs_s, BalanceLag)))
         IN  IF empty(bs_chg) THEN l0
             ELSE [l0 EXCEPT !.cur_bs_chg = Last(bs_chg),
                             !.z_bs = calculate_z_score(bs_chg)]

\* 4. SCORE MACRO GLOBAL
MacroScore_plus(z_rate, z_cpi, z_bs) ==
    FAdd(FAdd(FMul(z_rate, Flt(2000)), FMul(z_cpi, Flt(1000))),
         FMul(z_bs, Flt(500)))

MacroScore(z_rate, z_cpi, z_bs) ==
    FSub(FAdd(FMul(z_rate, Flt(2000)), FMul(z_cpi, Flt(1000))),
         FMul(z_bs, Flt(500)))

ScoredRow(currency, l) ==
    [Devise |-> currency,
     Taux |-> round2(l.cur_rate), Z_Rate |-> round2(l.z_rate),
     CPI |-> round2(l.cur_cpi), Z_CPI |-> round2(l.z_cpi),
     Bilan_6M |-> round2(l.cur_bs_chg), Z_Bilan |-> round2(l.z_bs),
     Macro_Score |-> round2(l.score),
     Date_MAJ |-> "today"]

FailureRow(currency) ==
    [Devise |-> Append(currency, " (Donnée manquante)"),
     Taux |-> Flt(0), Z_Rate |-> Flt(0),
     CPI |-> Flt(0), Z_CPI |-> Flt(0),
     Bilan_6M |-> Flt(0), Z_Bilan |-> Flt(0),
     Macro_Score |-> Flt(Sentinel * 1000),
     Date_MAJ |-> "Erreur"]

\* the body of the loop: the locals it leaves, the row it appends and the
\* answers fred gave it (NotFetched for a series it did not ask for)
Iteration(codes, l, rate_r, cpi_r, bs_r) ==
    LET s1 == RateStep(l, rate_r) IN
    IF s1.raised
    THEN [loc |-> s1.loc, row |-> FailureRow(codes.currency),
          resp |-> [rate |-> rate_r, cpi |-> NotFetched,
                    balance |-> NotFetched]]
    ELSE
    LET s2 == CpiStep(s1.loc, cpi_r) IN
    IF s2.raised
    THEN [loc |-> s2.loc, row |-> FailureRow(codes.currency),
          resp |-> [rate |-> rate_r, cpi |-> cpi_r, balance |-> NotFetched]]
    ELSE
    LET l3 == BalanceStep(s2.loc, codes, bs_r)
        l4 == [l3 EXCEPT !.score = MacroScore(l3.z_rate, l3.z_cpi, l3.z_bs)]
    IN  [loc |-> l4, row |-> ScoredRow(codes.currency, l4),
         resp |-> [rate |-> rate_r, cpi |-> cpi_r,
                   balance |-> IF HasBalance(codes) THEN bs_r
                               ELSE NotFetched]]

---------------------------------------------------------------------------
(* DataFrame operations *)

\* the arg-max positions of key over the positions S (key is never NaN on S)
Top(key, S) == {i \in S : \A j \in S : key[i].v >= key[j].v}

\* the orders in which a descending quicksort can leave the positions S: by
\* decreasing key, equal keys in any order (quicksort is not a stable sort)
RECURSIVE Descending(_, _)
Descending(key, S) ==
    IF S = {} THEN {<<>>}
    ELSE UNION {{<<i>> \o o : o \in Descending(key, S \ {i})} : i \in Top(key, S)}

\* the positions of the missing keys, in their original order
RECURSIVE NanIdx(_, _)
NanIdx(key, i) ==
    IF i > Len(key) THEN <<>>
    ELSE (IF key[i].nan THEN <<i>> ELSE <<>>) \o NanIdx(key, i + 1)

\* the results sort_values(ascending=False) can give for the rows with
\* these keys: the keyed rows descending, the rows with a NaN key last
sort_values(rows, key) ==
    {[k \in 1..Len(rows) |-> rows[(o \o NanIdx(key, 1))[k]]] :
        o \in Descending(key, {i \in 1..Len(rows) : ~key[i].nan})}

\* df[df['Macro Score'] != -999]
Clean_all(frame) == frame

Clean(frame) ==
    SelectSeq(frame, LAMBDA row : FNe(row.Macro_Score, Flt(Sentinel * 1000)))

\* row['Devise'][:3]
Prefix3(devise) == devise[1]

\* if spread > 1.5
Significant_ge(s) == ~FLt(s, Flt(1500)) /\ ~s.nan

Significant(s) == FGt(s, Flt(1500))

\* Raisonnement automatique
Reason(row_long, row_short) ==
    IF FGt(row_long.Z_Rate, Flt(1000)) /\ FLt(row_short.Z_Rate, Flt(0))
    THEN "Différentiel de Taux (Carry Trade)"
    ELSE IF FGt(row_long.Z_CPI, Flt(1500)) /\ FLt(row_short.Z_CPI, Flt(500))
    THEN "Réaction à l'Inflation"
    ELSE "Divergence Politique Globale"

\* the (i, j) visited by the two nested iterrows() loops, in order
LoopPairs(n) ==
    [k \in 1..(n * n) |-> <<((k - 1) \div n) + 1, ((k - 1) % n) + 1>>]

\* the pairs that reach line 254: rows with different names
Compared(frame) ==
    SelectSeq(LoopPairs(Len(frame)),
              LAMBDA p : frame[p[1]].Devise # frame[p[2]].Devise)

Spread(frame, p) == FSub(frame[p[1]].Macro_Score, frame[p[2]].Macro_Score)

Idea(frame, p) ==
    [Paire |-> <<Prefix3(frame[p[1]].Devise), Prefix3(frame[p[2]].Devise)>>,
     Action |-> "ACHAT",
     Score_Spread |-> round2(Spread(frame, p)),
     Logique |-> Reason(frame[p[1]], frame[p[2]])]

\* trade_ideas after the loops
TradeIdeas(frame) ==
    LET kept == SelectSeq(Compared(frame),
                          LAMBDA p : Significant(Spread(frame, p)))
    IN  [k \in 1..Len(kept) |-> Idea(frame, kept[k])]

---------------------------------------------------------------------------
(* The run of the script *)

Init ==
    /\ pc = "loop"
    /\ count = 0
    /\ data = <<>>
    /\ loc = NoLocals
    /\ resp = Answers(NotFetched, NotFetched, NotFetched)
    /\ df = <<>>
    /\ df_clean = <<>>
    /\ best = <<>>
    /\ worst = <<>>
    /\ spread = <<>>
    /\ trade_ideas = <<>>
    /\ df_trades = <<>>

\* one pass of "for currency, codes in central_banks.items()"
LoopBody ==
    /\ pc = "loop"
    /\ count < total
    /\ \E a \in Scenarios :
          LET it == Iteration(central_banks[count + 1], loc,
                              a.rate, a.cpi, a.balance)
          IN  /\ data' = Append(data, it.row)
              /\ loc' = it.loc
              /\ resp' = it.resp
    /\ count' = count + 1
    /\ UNCHANGED <<pc, df, df_clean, best, worst, spread, trade_ideas, df_trades>>

\* return pd.DataFrame(data).sort_values(by='Macro Score', ascending=False);
\* df = get_macro_data().  The locals of get_macro_data end with the call.
Return ==
    /\ pc = "loop"
    /\ count = total
    /\ df' \in sort_values(data, [i \in 1..Len(data) |-> data[i].Macro_Score])
    /\ pc' = "summary"
    /\ count' = 0
    /\ data' = <<>>
    /\ loc' = NoLocals
    /\ resp' = Answers(NotFetched, NotFetched, NotFetched)
    /\ UNCHANGED <<df_clean, best, worst, spread, trade_ideas, df_trades>>

\* df_clean and the "Signaux Forts" column
Summary ==
    /\ pc = "summary"
    /\ df_clean' = Clean(df)
    /\ IF ~empty(df_clean')
       THEN /\ best' = <<df_clean'[1]>>
            /\ worst' = <<Last(df_clean')>>
            /\ spread' = <<FSub(df_clean'[1].Macro_Score,
                                Last(df_clean').Macro_Score)>>
       ELSE UNCHANGED <<best, worst, spread>>
    /\ pc' = "pairs"
    /\ UNCHANGED <<count, data, loc, resp, df, trade_ideas, df_trades>>

\* the two nested loops over df_clean
Pairs ==
    /\ pc = "pairs"
    /\ trade_ideas' = TradeIdeas(df_clean)
    /\ LET c == Compared(df_clean) IN
       IF c = <<>> THEN UNCHANGED spread
       ELSE spread' = <<Spread(df_clean, Last(c))>>
    /\ pc' = "sort"
    /\ UNCHANGED <<count, data, loc, resp, df, df_clean, best, worst, df_trades>>

\* df_trades = pd.DataFrame(trade_ideas).sort_values(by='Score Spread', ...):
\* a frame built from an empty list has no column 'Score Spread', and the
\* KeyError ends the script; otherwise st.table ("table") or, were df_trades
\* empty, st.write("Aucune divergence majeure ...") ("write")
SortTrades ==
    /\ pc = "sort"
    /\ IF trade_ideas = <<>>
       THEN /\ pc' = "KeyError"
            /\ UNCHANGED df_trades
       ELSE /\ df_trades' \in sort_values(trade_ideas,
                  [i \in 1..Len(trade_ideas) |-> trade_ideas[i].Score_Spread])
            /\ pc' = IF ~empty(df_trades') THEN "table" ELSE "write"
    /\ UNCHANGED <<count, data, loc, resp, df, df_clean, best, worst, spread,
                   trade_ideas>>

Next == LoopBody \/ Return \/ Summary \/ Pairs \/ SortTrades

Spec == Init /\ [][Next]_vars

---------------------------------------------------------------------------
(* Properties *)

IsFailure(row) == FEq(row.Macro_Score, Flt(Sentinel * 1000))

InLoop == pc = "loop" /\ count > 0

\* the policy-rate series came back and is not empty
RateAvailable(r) == r.status = "ok" /\ ~empty(ffill(Observations[r.series]))

\* the position of a row's entity in central_banks
Index(row) == CHOOSE k \in 1..total : central_banks[k].currency[1] = row.Devise[1]

Ended == pc \in {"KeyError", "table", "write"}

\* C1: when no ordered pair passes the divergence filter (in particular with
\* fewer than 2 valid entities), the script ends on the "no major divergence"
\* message with an empty pair table, not on an error.
C1_EmptyPairsNoError ==
    (Ended /\ trade_ideas = <<>>) => (pc = "write" /\ df_trades = <<>>)

\* C2: an entity whose policy-rate series is available gets a scored row
\* whatever happens to its inflation and balance-sheet fetches, the z-score
\* of a failed or empty one being 0.
C2_OptionalDegrades ==
    (InLoop /\ RateAvailable(resp.rate)) =>
        /\ ~IsFailure(data[count])
        /\ data[count].Date_MAJ # "Erreur"
        /\ resp.cpi.status = "fail" => loc.z_cpi = Flt(0)
        /\ resp.balance.status = "fail" => loc.z_bs = Flt(0)
        /\ data[count].Macro_Score = round2(loc.score)

\* C3: an entity without a policy-rate series is still a row, carrying -999,
\* and in the returned ranking every such row comes after every scored row.
C3_FailedRowsLast ==
    /\ (InLoop /\ ~RateAvailable(resp.rate)) =>
           data[count] = FailureRow(central_banks[count].currency)
    /\ pc # "loop" =>
           /\ Len(df) = total
           /\ \A i, j \in 1..Len(df) :
                  (i < j) => ~(IsFailure(df[i]) /\ ~IsFailure(df[j]))

\* 2 * (Macro Score - (2.0 * Z-Rate + 1.0 * Z-CPI - 0.5 * Z-Bilan)) on the
\* values stored in a row without NaN, in thousandths
Residual2(row) ==
    2 * row.Macro_Score.v
        - (4 * row.Z_Rate.v + 2 * row.Z_CPI.v - row.Z_Bilan.v)

HasNaN(row) == row.Z_Rate.nan \/ row.Z_CPI.nan \/ row.Z_Bilan.nan

\* C4 as claimed: on the stored values of every row,
\* Macro Score = 2.0 * Z-Rate + 1.0 * Z-CPI - 0.5 * Z-Bilan.
C4_StoredIdentity ==
    \A i \in 1..Len(data) :
        ~HasNaN(data[i]) /\ ~data[i].Macro_Score.nan /\ Residual2(data[i]) = 0

\* C4 as amended: the Macro Score of a scored row is
\* 2.0 * z_rate + 1.0 * z_cpi - 0.5 * z_bs on the unrounded z-scores, rounded
\* to 2 decimals, so the identity holds on the stored (rounded) values to
\* within 0.02; the score is NaN exactly when a z-score of the row is; the
\* failure row carries -999 with all three z-scores 0.
C4_StoredIdentityRounded ==
    /\ (InLoop /\ data[count].Date_MAJ # "Erreur") =>
           /\ data[count].Macro_Score =
                  round2(FSub(FAdd(FMul(loc.z_rate, Flt(2000)), loc.z_cpi),
                              FMul(loc.z_bs, Flt(500))))
           /\ data[count].Z_Rate = round2(loc.z_rate)
           /\ data[count].Z_CPI = round2(loc.z_cpi)
           /\ data[count].Z_Bilan = round2(loc.z_bs)
    /\ \A i \in 1..Len(data) :
        LET row == data[i] IN
        IF row.Date_MAJ = "Erreur"
        THEN /\ row.Macro_Score = Flt(Sentinel * 1000)
             /\ row.Z_Rate = Flt(0) /\ row.Z_CPI = Flt(0) /\ row.Z_Bilan = Flt(0)
        ELSE IF HasNaN(row) \/ row.Macro_Score.nan
        THEN HasNaN(row) /\ row.Macro_Score.nan
        ELSE Abs(Residual2(row)) <= 40

C4_Witness ==
    /\ pc = "loop"
    /\ \E i, j, k \in 1..Len(data) :
           /\ data[i].Date_MAJ = "Erreur"
           /\ ~HasNaN(data[j]) /\ data[j].Date_MAJ # "Erreur"
           /\ Residual2(data[j]) # 0 /\ data[j].Z_Bilan.v # 0
           /\ data[k].Macro_Score.nan

\* the z-score C5 states: 0 with fewer than MinObs non-missing observations
\* (all missing included) or a zero standard deviation, else
\* (last - mean) / std
ZClaimed(series) ==
    IF Len(dropna(series)) < MinObs \/ StdIsZero(std(series)) THEN Flt(0)
    ELSE ZQuotient(series, mean(series), std(series))

\* C5: the z-score of the (forward-filled) policy-rate series is the neutral
\* 0 below 12 non-missing observations or with zero deviation, and
\* (last - mean) / std otherwise.
C5_ZScoreNeutral ==
    (InLoop /\ RateAvailable(resp.rate)) =>
        loc.z_rate = ZClaimed(ffill(Observations[resp.rate.series]))

\* the ordered pairs of positions of df that C6 retains
Valid == {i \in 1..Len(df) : ~IsFailure(df[i])}

Divergent ==
    {p \in Valid \X Valid :
        /\ p[1] # p[2]
        /\ FGt(FSub(df[p[1]].Macro_Score, df[p[2]].Macro_Score), Flt(1500))}

PairOf(p) == <<df[p[1]].Devise[1], df[p[2]].Devise[1]>>

\* C6: trade_ideas holds the ordered pair (long i, short j) exactly for the
\* distinct valid entities with score[i] - score[j] > 1.5, once each, with
\* that difference as its spread.
C6_PairsExactlyAboveThreshold ==
    pc \in {"sort", "KeyError", "table", "write"} =>
        /\ \A p \in Divergent : \E k \in 1..Len(trade_ideas) :
               /\ trade_ideas[k].Paire = PairOf(p)
               /\ trade_ideas[k].Score_Spread =
                      round2(FSub(df[p[1]].Macro_Score, df[p[2]].Macro_Score))
        /\ \A k \in 1..Len(trade_ideas) : \E p \in Divergent :
               trade_ideas[k].Paire = PairOf(p)
        /\ Len(trade_ideas) = Cardinality(Divergent)

C6_Witness ==
    /\ pc = "sort"
    /\ \E i, j \in Valid :
           FEq(FSub(df[i].Macro_Score, df[j].Macro_Score), Flt(1500))
    /\ \E j, k \in 1..Len(trade_ideas) :
           /\ j # k
           /\ trade_ideas[j].Paire[1] = trade_ideas[k].Paire[1]

\* C7: the ranking is sorted descending by Macro Score and rows of equal
\* score keep their insertion order.
C7_StableDescending ==
    pc # "loop" =>
        \A i, j \in 1..Len(df) :
            (i < j) =>
                /\ ~FGt(df[j].Macro_Score, df[i].Macro_Score)
                /\ FEq(df[i].Macro_Score, df[j].Macro_Score) =>
                       Index(df[i]) < Index(df[j])

\* C8: for an entity configured without a balance-sheet series, no
\* balance-sheet fetch is made, and when its rate and inflation series are
\* fetched its row is a scored row with a zero balance term:
\* score = 2.0 * z_rate + 1.0 * z_cpi.
C8_NoBalanceSeries ==
    (InLoop /\ central_banks[count].balance = None) =>
        /\ resp.balance = NotFetched
        /\ (RateAvailable(resp.rate) /\ resp.cpi.status = "ok") =>
               /\ data[count].Date_MAJ # "Erreur"
               /\ loc.z_bs = Flt(0)
               /\ loc.cur_bs_chg = Flt(0)
               /\ data[count].Z_Bilan = Flt(0)
               /\ loc.score = FAdd(FMul(loc.z_rate, Flt(2000)), loc.z_cpi)
               /\ data[count].Macro_Score = round2(loc.score)

C8_Witness ==
    /\ InLoop
    /\ central_banks[count].balance = None
    /\ data[count].Date_MAJ # "Erreur"
    /\ FGt(loc.z_rate, Flt(0))
    /\ FGt(loc.z_cpi, Flt(0))
    /\ data[count - 1].Z_Bilan.v # 0

\* the row the loop body gives an entity from the answers to its own
\* requests alone
OwnRow(k, answers) ==
    Iteration(central_banks[k], NoLocals,
              answers.rate, answers.cpi, answers.balance).row

\* C9: the row of an entity is the one its own series and fetch outcomes
\* give, whatever the earlier iterations left behind, and the later
\* iterations leave it as it is.
C9_RowIndependent ==
    /\ [](InLoop => data[count] = OwnRow(count, resp))
    /\ [][(pc = "loop" /\ pc' = "loop") =>
              \A i \in 1..Len(data) : data'[i] = data[i]]_vars

C9_Witness ==
    /\ InLoop
    /\ count >= 2
    /\ data[count - 1].Z_Bilan.v # 0
    /\ data[count - 1].Z_CPI.v # 0
    /\ data[count].Date_MAJ # "Erreur"
    /\ data[count].Z_Bilan = Flt(0)
    /\ data[count].Z_CPI = Flt(0)

FailedCodes == {df[i].Devise[1] : i \in {k \in 1..Len(df) : IsFailure(df[k])}}

Scored == {df[i] : i \in Valid}

\* C10: a row carrying -999 is on neither side of a retained pair and is
\* neither the LONG nor the SHORT entity of the summary; the summary spread
\* is best - worst over scored rows and is not negative.
C10_FailedNeverSignals ==
    /\ pc \notin {"loop", "summary"} =>
           /\ \A i \in 1..Len(best) : best[i] \in Scored
           /\ \A i \in 1..Len(worst) : worst[i] \in Scored
           /\ (best = <<>>) = (Scored = {})
           /\ (worst = <<>>) = (Scored = {})
    /\ pc = "pairs" =>
           /\ (spread = <<>>) = (Scored = {})
           /\ \A i \in 1..Len(spread) :
                  /\ spread[i] = FSub(best[1].Macro_Score, worst[1].Macro_Score)
                  /\ ~FLt(spread[i], Flt(0))
    /\ \A k \in 1..Len(trade_ideas) :
           /\ trade_ideas[k].Paire[1] \notin FailedCodes
           /\ trade_ideas[k].Paire[2] \notin FailedCodes

C10_Witness ==
    /\ pc = "sort"
    /\ FailedCodes # {}
    /\ trade_ideas # <<>>
    /\ best # <<>>
    /\ FGt(best[1].Macro_Score, worst[1].Macro_Score)

====
